---------------------------- MODULE Spec2Model ----------------------------
(***************************************************************************)
(* Streaming tick-to-bar aggregation of src/main.py.                       *)
(*                                                                         *)
(* A frame of ticks is a sequence of records [datetime, mid]; a frame of   *)
(* bars is a sequence of records [datetime, open, high, low, close,        *)
(* volume].  Instants are counted in sub-second units (SubPerSec units to  *)
(* the second) so that the truncation int(ts) of floor_dt_to_seconds is    *)
(* visible.  Strings the program inspects character by character (window   *)
(* rules, file names, symbols) are sequences of one-character strings.     *)
(* An optional value is << >> (None / null) or <<v>>.                      *)
(*                                                                         *)
(* DataFrame.sort is modelled as a stable sort: rows with equal keys keep  *)
(* their order.  The source leaves maintain_order at its default, so the   *)
(* properties that read the order of equal keys (the open and close of     *)
(* ticks of one instant, the bar kept by unique(keep="last")) are settled  *)
(* under that reading.  Instants are >= 0 and prices are finite numbers.   *)
(***************************************************************************)
EXTENDS Integers, Sequences, FiniteSets, TLC

\* ------------------------------------------------------------------ bounds
\* sub-second units per second (resolution of an instant)
SubPerSec == 2
\* instants of raw rows range over 0 .. MaxTime (sub-second units)
MaxTime == 4
\* prices of raw rows range over 1 .. MaxPrice
MaxPrice == 2
\* rows per raw batch
MaxRows == 2
\* batches the reader delivers before end-of-input
MaxBatches == 2

\* ------------------------------------------------------------- characters
None == << >>

Range(f) == {f[i] : i \in DOMAIN f}

Some(v) == <<v>>

Digits == {"0", "1", "2", "3", "4", "5", "6", "7", "8", "9"}

Upper ==
    {"A", "B", "C", "D", "E", "F", "G", "H", "I", "J", "K", "L", "M",
     "N", "O", "P", "Q", "R", "S", "T", "U", "V", "W", "X", "Y", "Z"}

Whitespace == {" "}

DigitVal(c) ==
    CASE c = "0" -> 0 [] c = "1" -> 1 [] c = "2" -> 2 [] c = "3" -> 3
      [] c = "4" -> 4 [] c = "5" -> 5 [] c = "6" -> 6 [] c = "7" -> 7
      [] c = "8" -> 8 [] c = "9" -> 9

DigitChar(n) ==
    CASE n = 0 -> "0" [] n = 1 -> "1" [] n = 2 -> "2" [] n = 3 -> "3"
      [] n = 4 -> "4" [] n = 5 -> "5" [] n = 6 -> "6" [] n = 7 -> "7"
      [] n = 8 -> "8" [] n = 9 -> "9"

\* int() of a string of decimal digits
RECURSIVE ToInt(_)
ToInt(ds) ==
    IF ds = << >> THEN 0
    ELSE 10 * ToInt(SubSeq(ds, 1, Len(ds) - 1)) + DigitVal(ds[Len(ds)])

\* str.strip(): leading and trailing whitespace removed
RECURSIVE Strip(_)
Strip(s) ==
    IF s = << >> THEN s
    ELSE IF s[1] \in Whitespace THEN Strip(Tail(s))
    ELSE IF s[Len(s)] \in Whitespace THEN Strip(SubSeq(s, 1, Len(s) - 1))
    ELSE s

\* length of the longest prefix of s whose characters are all in cs
RECURSIVE Span(_, _)
Span(s, cs) ==
    IF s # << >> /\ s[1] \in cs THEN 1 + Span(Tail(s), cs) ELSE 0

\* ------------------------------------------------------ rule_to_seconds
\* mutant of RuleMatch: any unit letter is accepted, not only "s"
RuleMatchAnyUnit(rule) ==
    LET t == Strip(rule)
        nd == Span(t, Digits)
        rest == SubSeq(t, nd + 1, Len(t))
        nw == Span(rest, Whitespace)
    IN  IF nd >= 1 /\ Len(rest) = nw + 1 /\ rest[nw + 1] \in {"s", "m", "h", "d"}
        THEN Some(SubSeq(t, 1, nd))
        ELSE None

\* re.fullmatch(r"(\d+)\s*s", rule.strip()): << >> when there is no match,
\* <<digits>> otherwise
RuleMatch(rule) ==
    LET t == Strip(rule)
        nd == Span(t, Digits)
        rest == SubSeq(t, nd + 1, Len(t))
        nw == Span(rest, Whitespace)
    IN  IF nd >= 1 /\ Len(rest) = nw + 1 /\ rest[nw + 1] = "s"
        THEN Some(SubSeq(t, 1, nd))
        ELSE None

\* the rule raises ValueError
RuleInvalid(rule) == RuleMatch(rule) = None

RuleToSeconds(rule) == ToInt(RuleMatch(rule)[1])

\* ------------------------------------------------- floor_dt_to_seconds
\* mutant of FloorDtToSeconds: floors to the second, not to the window
FloorDtToWholeSecond(dt, sec) == (dt \div SubPerSec) * SubPerSec

\* dt.timestamp() is dt / SubPerSec seconds; int() drops the fraction
FloorDtToSeconds(dt, sec) ==
    LET ts == dt \div SubPerSec
        flo == (ts \div sec) * sec
    IN  flo * SubPerSec

\* ----------------------------------------------- filter_symbol_in_files
\* str(years)[-1]
LastDigit(years) == DigitChar(years % 10)

ContractCode(month) ==
    IF month \in {12} THEN Some("H")
    ELSE IF month \in {1, 2, 3} THEN Some("H")
    ELSE IF month \in {4, 5, 6} THEN Some("M")
    ELSE IF month \in {7, 8, 9} THEN Some("U")
    ELSE IF month \in {10, 11} THEN Some("Z")
    ELSE None

\* mutant of ContractYear: December keeps its own year
ContractYearNoRoll(years, month) == years

ContractYear(years, month) == IF month \in {12} THEN years + 1 ELSE years

FilterSymbolInFiles(symbol, years, month) ==
    IF ContractCode(month) = None THEN None
    ELSE Some(symbol \o ContractCode(month)
                     \o <<LastDigit(ContractYear(years, month))>>)

\* ------------------------------------------------ build_bars_from_ticks
\* re.search(r'^([A-Z]+)[-_](20\d{2})[-_]?(\d{2})\.csv$', file_name):
\* None when there is no match, otherwise the three groups
FileNameMatch(name) ==
    LET k == Span(name, Upper)
        rest == SubSeq(name, k + 1, Len(name))
        n == Len(rest)
        \* position of the first month digit in rest
        m == IF n = 12 THEN 7 ELSE 6
        ok == /\ k >= 1
              /\ n \in {11, 12}
              /\ rest[1] \in {"-", "_"}
              /\ rest[2] = "2" /\ rest[3] = "0"
              /\ rest[4] \in Digits /\ rest[5] \in Digits
              /\ (n = 12 => rest[6] \in {"-", "_"})
              /\ rest[m] \in Digits /\ rest[m + 1] \in Digits
              /\ SubSeq(rest, m + 2, n) = <<".", "c", "s", "v">>
    IN  IF ok
        THEN Some([symbol |-> SubSeq(name, 1, k),
                   year |-> ToInt(SubSeq(rest, 2, 5)),
                   month |-> ToInt(SubSeq(rest, m, m + 1))])
        ELSE None

\* ---------------------------------------------------------------- sort
\* insert row x behind every row whose datetime is not larger
RECURSIVE InsertByDatetime(_, _)
InsertByDatetime(sorted, x) ==
    IF sorted = << >> THEN <<x>>
    ELSE IF Head(sorted).datetime <= x.datetime
         THEN <<Head(sorted)>> \o InsertByDatetime(Tail(sorted), x)
         ELSE <<x>> \o sorted

\* frame.sort("datetime")
RECURSIVE SortByDatetime(_)
SortByDatetime(frame) ==
    IF frame = << >> THEN << >>
    ELSE InsertByDatetime(SortByDatetime(SubSeq(frame, 1, Len(frame) - 1)),
                          frame[Len(frame)])

\* ------------------------------------------------------ clean_tick_batch
\* A raw row is [ts_event, price, symbol]: ts_event.parses tells whether
\* strptime yields an instant (strict=False: null otherwise), price.casts
\* whether the cast to Float64 yields a number; symbol is null or a string.
\* mid is kept in the fixed-point unit of the raw price (the factor 1e-9 is
\* a change of unit), and so are the sanity bounds.
ParseRow(row) ==
    [datetime |-> IF row.ts_event.parses THEN Some(row.ts_event.instant)
                  ELSE None,
     mid |-> IF row.price.casts THEN Some(row.price.value) ELSE None,
     symbol |-> row.symbol]

RECURSIVE ParseRows(_)
ParseRows(rows) ==
    IF rows = << >> THEN << >>
    ELSE <<ParseRow(Head(rows))>> \o ParseRows(Tail(rows))

\* out.drop_nulls(["datetime", "mid"])
DropNulls(out) ==
    LET Keep(x) == x.datetime # None /\ x.mid # None
    IN  SelectSeq(out, Keep)

\* mutant of FilterSymbol: the symbol column is dropped without filtering
FilterSymbolKeepAll(out, symbol_filter) == out

\* out.filter(pl.col("symbol") == symbol_filter): a comparison with a null
\* on either side is null, and filter drops the row
FilterSymbol(out, symbol_filter) ==
    LET Keep(x) == /\ x.symbol # None
                   /\ symbol_filter # None
                   /\ x.symbol = symbol_filter
    IN  SelectSeq(out, Keep)

\* mutant of FilterMinPrice: a price at the bound is dropped
FilterMinPriceStrict(out, sanity_min_price) ==
    LET Keep(x) == x.mid[1] > sanity_min_price[1]
    IN  IF sanity_min_price # None THEN SelectSeq(out, Keep) ELSE out

FilterMinPrice(out, sanity_min_price) ==
    LET Keep(x) == x.mid[1] >= sanity_min_price[1]
    IN  IF sanity_min_price # None THEN SelectSeq(out, Keep) ELSE out

FilterMaxPrice(out, sanity_max_price) ==
    LET Keep(x) == x.mid[1] <= sanity_max_price[1]
    IN  IF sanity_max_price # None THEN SelectSeq(out, Keep) ELSE out

\* the canonical tick of a parsed row without nulls
RECURSIVE Ticks(_)
Ticks(out) ==
    IF out = << >> THEN << >>
    ELSE <<[datetime |-> Head(out).datetime[1], mid |-> Head(out).mid[1]]>>
         \o Ticks(Tail(out))

\* sanity_check_tick_data before its final sort
SanityFilters(out, has_symbol, symbol_filter, sanity_min_price, sanity_max_price) ==
    LET a == DropNulls(out)
        b == IF has_symbol THEN FilterSymbol(a, symbol_filter) ELSE a
        c == FilterMinPrice(b, sanity_min_price)
        d == FilterMaxPrice(c, sanity_max_price)
    IN  Ticks(d)

SanityCheckTickData(out, has_symbol, symbol_filter, sanity_min_price, sanity_max_price) ==
    SortByDatetime(SanityFilters(out, has_symbol, symbol_filter,
                                 sanity_min_price, sanity_max_price))

CleanTickBatch(raw, symbol_filter, sanity_min_price, sanity_max_price) ==
    SanityCheckTickData(ParseRows(raw.rows), raw.has_symbol, symbol_filter,
                        sanity_min_price, sanity_max_price)

\* ------------------------------------------------------- bars_from_ticks
\* the window length polars reads from every=rule, period=rule ("<N>s"),
\* in sub-second units
Every(rule) == ToInt(SubSeq(rule, 1, Len(rule) - 1)) * SubPerSec

\* mutant of WindowStart: the window is labelled by its right edge
WindowStartRightLabel(t, every) == (t \div every) * every + every

\* left-labelled window of instant t
WindowStart(t, every) == (t \div every) * every

Max(a, b) == IF a >= b THEN a ELSE b

Min(a, b) == IF a <= b THEN a ELSE b

\* mutant of Fold: high takes the last price instead of the largest
FoldHighIsLast(bar, t) ==
    [datetime |-> bar.datetime,
     open |-> bar.open,
     high |-> t.mid,
     low |-> Min(bar.low, t.mid),
     close |-> t.mid,
     volume |-> bar.volume + 1]

\* first / max / min / last / len of one more tick of the window of bar
Fold(bar, t) ==
    [datetime |-> bar.datetime,
     open |-> bar.open,
     high |-> Max(bar.high, t.mid),
     low |-> Min(bar.low, t.mid),
     close |-> t.mid,
     volume |-> bar.volume + 1]

NewBar(t, every) ==
    [datetime |-> WindowStart(t.datetime, every),
     open |-> t.mid, high |-> t.mid, low |-> t.mid, close |-> t.mid,
     volume |-> 1]

\* group_by_dynamic(...).agg(...) over ticks sorted by datetime: the ticks
\* of one window are adjacent, a window without ticks yields no row
RECURSIVE GroupByDynamic(_, _, _)
GroupByDynamic(ticks, every, acc) ==
    IF ticks = << >> THEN acc
    ELSE LET t == Head(ticks)
             n == Len(acc)
         IN  IF n > 0 /\ acc[n].datetime = WindowStart(t.datetime, every)
             THEN GroupByDynamic(Tail(ticks), every,
                                 [acc EXCEPT ![n] = Fold(acc[n], t)])
             ELSE GroupByDynamic(Tail(ticks), every,
                                 Append(acc, NewBar(t, every)))

\* drop_nulls removes nothing (no mid is null); the result is sorted
BarsFromTicks(ticks, rule) ==
    SortByDatetime(GroupByDynamic(ticks, Every(rule), << >>))

\* ------------------------------------------------------------ merge_data
\* pl.concat(frames, how="vertical")
RECURSIVE Concat(_)
Concat(frames) ==
    IF frames = << >> THEN << >> ELSE Head(frames) \o Concat(Tail(frames))

\* mutant of UniqueKeepLast: keep="first"
RECURSIVE UniqueKeepFirst(_)
UniqueKeepFirst(bars) ==
    IF bars = << >> THEN << >>
    ELSE LET n == Len(bars)
         IN  IF \E j \in 1 .. n - 1 : bars[j].datetime = bars[n].datetime
             THEN UniqueKeepFirst(SubSeq(bars, 1, n - 1))
             ELSE UniqueKeepFirst(SubSeq(bars, 1, n - 1)) \o <<bars[n]>>

\* unique(subset=["datetime"], keep="last")
RECURSIVE UniqueKeepLast(_)
UniqueKeepLast(bars) ==
    IF bars = << >> THEN << >>
    ELSE IF \E j \in 2 .. Len(bars) : bars[j].datetime = bars[1].datetime
         THEN UniqueKeepLast(Tail(bars))
         ELSE <<Head(bars)>> \o UniqueKeepLast(Tail(bars))

\* the series of one granularity
MergeOne(frames) ==
    IF frames # << >>
    THEN SortByDatetime(UniqueKeepLast(SortByDatetime(Concat(frames))))
    ELSE << >>

\* mutant of MergeStep: a rule without bars gets no key
MergeStepSkipEmpty(final, r, frames) ==
    IF frames # << >> THEN (r :> MergeOne(frames)) @@ final ELSE final

\* final_bars[r] = ... in either branch of the loop body
MergeStep(final, r, frames) == (r :> MergeOne(frames)) @@ final

\* final_bars after the loop over rules[i ..]
RECURSIVE MergeFrom(_, _, _, _)
MergeFrom(bars_out_, rules_, i, final) ==
    IF i > Len(rules_) THEN final
    ELSE MergeFrom(bars_out_, rules_, i + 1,
                   MergeStep(final, rules_[i], bars_out_[rules_[i]]))

MergeData(bars_out_, rules_) == MergeFrom(bars_out_, rules_, 1, << >>)

\* ---------------------------------------------------- loop_through_files
\* mutant of MaxDatetime: the instant of the first row of the sorted frame
MaxDatetimeFirst(frame) == frame[1].datetime

\* combined.select(pl.col("datetime").max()).item() of a non-empty frame
RECURSIVE MaxDatetime(_)
MaxDatetime(frame) ==
    IF Len(frame) = 1 THEN frame[1].datetime
    ELSE Max(frame[1].datetime, MaxDatetime(Tail(frame)))

\* mutant of ToFinalize: a tick on the watermark is finalized as well
ToFinalizeInclusive(combined, cutoff) ==
    LET Keep(x) == x.datetime <= cutoff
    IN  SelectSeq(combined, Keep)

\* combined.filter(pl.col("datetime") < cutoff)
ToFinalize(combined, cutoff) ==
    LET Keep(x) == x.datetime < cutoff
    IN  SelectSeq(combined, Keep)

\* mutant of ToKeep: the finalized ticks stay in the buffer
ToKeepAll(combined, cutoff) == combined

\* mutant of ToKeep: a tick on the watermark is not kept
ToKeepStrict(combined, cutoff) ==
    LET Keep(x) == x.datetime > cutoff
    IN  SelectSeq(combined, Keep)

\* combined.filter(pl.col("datetime") >= cutoff)
ToKeep(combined, cutoff) ==
    LET Keep(x) == x.datetime >= cutoff
    IN  SelectSeq(combined, Keep)

\* One pass of the body of "for r in data.rules" over the state
\* st = [buffers, bars_out, calls, cutoffs]; calls logs every bars_from_ticks
\* call, cutoffs every cutoff computed.
IngestOne(st, r, ticks, secs, n) ==
    LET buf == st.buffers[r]
        combined == SortByDatetime(buf \o ticks)
    IN  IF combined = << >>
        THEN [st EXCEPT !.buffers[r] = combined]
        ELSE LET cutoff == FloorDtToSeconds(MaxDatetime(combined), secs[r])
                 to_finalize == ToFinalize(combined, cutoff)
                 to_keep == ToKeep(combined, cutoff)
                 b == BarsFromTicks(to_finalize, r)
             IN  [buffers |-> [st.buffers EXCEPT ![r] = to_keep],
                  bars_out |->
                      IF to_finalize # << >> /\ b # << >>
                      THEN [st.bars_out EXCEPT ![r] = Append(@, b)]
                      ELSE st.bars_out,
                  calls |->
                      IF to_finalize # << >>
                      THEN Append(st.calls,
                                  [rule |-> r, phase |-> "ingest", batch |-> n,
                                   ticks |-> to_finalize, bars |-> b])
                      ELSE st.calls,
                  cutoffs |->
                      Append(st.cutoffs,
                             [rule |-> r, batch |-> n, cutoff |-> cutoff])]

\* the loop "for r in data.rules" of one batch, from rules[i] on
RECURSIVE IngestFrom(_, _, _, _, _, _)
IngestFrom(st, rules_, i, ticks, secs, n) ==
    IF i > Len(rules_) THEN st
    ELSE IngestFrom(IngestOne(st, rules_[i], ticks, secs, n),
                    rules_, i + 1, ticks, secs, n)

\* mutant of FlushOne: the flush applies the watermark test of an ingest
FlushOneBelowCutoff(st, r, n) ==
    LET buf == st.buffers[r]
        cutoff == IF buf = << >> THEN 0
                  ELSE FloorDtToSeconds(MaxDatetime(buf), RuleToSeconds(r))
        to_finalize == ToFinalize(buf, cutoff)
        b == BarsFromTicks(to_finalize, r)
    IN  IF to_finalize # << >>
        THEN [cutoffs |-> st.cutoffs,
              buffers |-> st.buffers,
              bars_out |-> IF b # << >>
                           THEN [st.bars_out EXCEPT ![r] = Append(@, b)]
                           ELSE st.bars_out,
              calls |-> Append(st.calls,
                               [rule |-> r, phase |-> "flush", batch |-> n,
                                ticks |-> to_finalize, bars |-> b])]
        ELSE st

\* one pass of the body of the final "for r in data.rules"
FlushOne(st, r, n) ==
    LET buf == st.buffers[r]
        b == BarsFromTicks(buf, r)
    IN  IF buf # << >>
        THEN [cutoffs |-> st.cutoffs,
              buffers |-> st.buffers,
              bars_out |-> IF b # << >>
                           THEN [st.bars_out EXCEPT ![r] = Append(@, b)]
                           ELSE st.bars_out,
              calls |-> Append(st.calls,
                               [rule |-> r, phase |-> "flush", batch |-> n,
                                ticks |-> buf, bars |-> b])]
        ELSE st

RECURSIVE FlushFrom(_, _, _, _)
FlushFrom(st, rules_, i, n) ==
    IF i > Len(rules_) THEN st
    ELSE FlushFrom(FlushOne(st, rules_[i], n), rules_, i + 1, n)

\* mutant of IngestBatch: a batch cleaned to zero rows is taken for the end
\* of the input and the buffers are reduced
IngestBatchFlushOnEmpty(st, rules_, ticks, secs, n) ==
    IF Len(ticks) = 0 THEN FlushFrom(st, rules_, 1, n)
    ELSE IngestFrom(st, rules_, 1, ticks, secs, n)

\* lines 36-58: "if ticks.height == 0: continue", else the loop over the rules
IngestBatch(st, rules_, ticks, secs, n) ==
    IF Len(ticks) = 0 THEN st
    ELSE IngestFrom(st, rules_, 1, ticks, secs, n)

\* -------------------------------------------------------------- inputs
Str1s == <<"1", "s">>

Str2s == <<"2", "s">>

Str1m == <<"1", "m">>

\* data.timeframemap.values(): the window strings in the order of the map's
\* labels.  main() configures pairwise different strings of the form "<N>s";
\* a string of another form is a configuration defect.
TimeframeMaps == {<<Str1s, Str2s>>, <<Str1s, Str1m>>, <<Str1m>>}

NameNQ2003 ==
    <<"N", "Q", "_", "2", "0", "2", "0", "_", "0", "3", ".", "c", "s", "v">>

NameNQ2012 ==
    <<"N", "Q", "-", "2", "0", "2", "0", "1", "2", ".", "c", "s", "v">>

NameNQ2013 ==
    <<"N", "Q", "_", "2", "0", "2", "0", "_", "1", "3", ".", "c", "s", "v">>

NameLower ==
    <<"n", "q", "_", "2", "0", "2", "0", "_", "0", "3", ".", "c", "s", "v">>

NameNoMonth == <<"N", "Q", "_", "2", "0", "2", "0", ".", "c", "s", "v">>

FileNames == {NameNQ2003, NameNQ2012, NameNQ2013, NameLower, NameNoMonth}

SymNQH0 == <<"N", "Q", "H", "0">>

SymNQM0 == <<"N", "Q", "M", "0">>

Instants == 0 .. MaxTime

Prices == 1 .. MaxPrice

Parsed(t) == [parses |-> TRUE, instant |-> t]

Unparsed == [parses |-> FALSE, instant |-> 0]

Cast(p) == [casts |-> TRUE, value |-> p]

Uncast == [casts |-> FALSE, value |-> 0]

\* rows of the instrument of the run, and one row of each row-level defect
GoodRows ==
    {[ts_event |-> Parsed(t), price |-> Cast(p), symbol |-> Some(SymNQH0)] :
        t \in Instants, p \in Prices}

DefectRows ==
    {[ts_event |-> Unparsed, price |-> Cast(1), symbol |-> Some(SymNQH0)],
     [ts_event |-> Parsed(0), price |-> Uncast, symbol |-> Some(SymNQH0)],
     [ts_event |-> Parsed(0), price |-> Cast(1), symbol |-> Some(SymNQM0)]}

RawRows == GoodRows \cup DefectRows

\* sequences over S of length 0 .. n
SeqUpTo(S, n) == UNION {[1 .. k -> S] : k \in 0 .. n}

\* data.sanity_min_price / data.sanity_max_price: absent, or a price
SanityMins == {None, Some(MaxPrice)}

SanityMaxs == {None, Some(1)}

\* ---------------------------------------------------------------- state
VARIABLES
    timeframemap,       \* data.timeframemap.values()
    file_name,          \* data.file_name
    sanity_min_price,   \* data.sanity_min_price
    sanity_max_price,   \* data.sanity_max_price
    has_symbol,         \* the CSV behind data.data has a symbol column
    pc,                 \* position in build_bars_from_ticks
    rule_secs,          \* rule -> seconds
    bars_out,           \* rule -> list of frames of bars
    buffers,            \* rule -> frame of ticks
    symbol_filter,      \* None or the instrument code
    reads,              \* calls of reader.next_batches so far
    final_bars,         \* None until build_bars_from_ticks returns <<mapping>>
    batch_log,          \* per batch read: its rows that pass the filters, in file order
    calls,              \* log of the calls of bars_from_ticks
    cutoffs,            \* log of the cutoffs computed by floor_dt_to_seconds
    arg,                \* arguments of the function applied on its own
    ret                 \* its result

vars ==
    <<timeframemap, file_name, sanity_min_price, sanity_max_price, has_symbol,
      pc, rule_secs, bars_out, buffers, symbol_filter, reads, final_bars,
      batch_log, calls, cutoffs, arg, ret>>

config == <<timeframemap, file_name, sanity_min_price, sanity_max_price, has_symbol>>

\* the set of the rules of a map
RuleSet(rules_) == {rules_[i] : i \in 1 .. Len(rules_)}

Init ==
    /\ timeframemap \in TimeframeMaps
    /\ file_name \in FileNames
    /\ sanity_min_price \in SanityMins
    /\ sanity_max_price \in SanityMaxs
    /\ has_symbol \in BOOLEAN
    /\ pc = "start"
    /\ rule_secs = << >>
    /\ bars_out = << >>
    /\ buffers = << >>
    /\ symbol_filter = None
    /\ reads = 0
    /\ final_bars = None
    /\ batch_log = << >>
    /\ calls = << >>
    /\ cutoffs = << >>
    /\ arg = << >>
    /\ ret = << >>

\* lines 177-186: rule_to_seconds of every rule (ValueError on the first
\* rule of another form), then the empty bar-lists and buffers
ConfigureRules ==
    /\ pc = "start"
    /\ IF \E r \in RuleSet(timeframemap) : RuleInvalid(r)
       THEN /\ pc' = "failed"
            /\ UNCHANGED <<rule_secs, bars_out, buffers>>
       ELSE /\ pc' = "open"
            /\ rule_secs' = [r \in RuleSet(timeframemap) |-> RuleToSeconds(r)]
            /\ bars_out' = [r \in RuleSet(timeframemap) |-> << >>]
            /\ buffers' = [r \in RuleSet(timeframemap) |-> << >>]
    /\ UNCHANGED <<config, symbol_filter, reads, final_bars, batch_log, calls,
                   cutoffs, arg, ret>>

\* lines 188-202: the batched reader is created (no batch is read), the file
\* name is matched (m.group on no match raises) and the symbol filter derived
OpenReader ==
    /\ pc = "open"
    /\ LET m == FileNameMatch(file_name)
       IN  IF m = None
           THEN /\ pc' = "failed"
                /\ UNCHANGED symbol_filter
           ELSE /\ pc' = "loop"
                /\ symbol_filter' =
                       FilterSymbolInFiles(m[1].symbol, m[1].year, m[1].month)
    /\ UNCHANGED <<config, rule_secs, bars_out, buffers, reads, final_bars,
                   batch_log, calls, cutoffs, arg, ret>>

\* the state the loops of loop_through_files work on
LoopState ==
    [buffers |-> buffers, bars_out |-> bars_out, calls |-> calls,
     cutoffs |-> cutoffs]

\* lines 30-58: next_batches delivers the batch of rows; it is cleaned and,
\* unless no row is left, ingested by every rule
ReadRows(rows) ==
    /\ pc = "loop"
    /\ LET raw == [has_symbol |-> has_symbol, rows |-> rows]
           ticks == CleanTickBatch(raw, symbol_filter, sanity_min_price,
                                   sanity_max_price)
           new == IngestBatch(LoopState, timeframemap, ticks, rule_secs,
                              reads + 1)
       IN  /\ buffers' = new.buffers
           /\ bars_out' = new.bars_out
           /\ calls' = new.calls
           /\ cutoffs' = new.cutoffs
           /\ batch_log' =
                  Append(batch_log,
                         SanityFilters(ParseRows(rows), has_symbol,
                                       symbol_filter, sanity_min_price,
                                       sanity_max_price))
    /\ reads' = reads + 1
    /\ UNCHANGED <<config, pc, rule_secs, symbol_filter, final_bars, arg, ret>>

\* the reader delivers any batch of up to MaxRows rows
ReadBatch ==
    /\ reads < MaxBatches
    /\ \E rows \in SeqUpTo(RawRows, MaxRows) : ReadRows(rows)

\* mutant of ReaderFails: the bars finalized so far are returned
ReaderFailsPartial ==
    /\ pc = "loop"
    /\ reads' = reads + 1
    /\ pc' = "failed"
    /\ final_bars' = Some(MergeData(bars_out, timeframemap))
    /\ UNCHANGED <<config, rule_secs, bars_out, buffers, symbol_filter,
                   batch_log, calls, cutoffs, arg, ret>>

\* line 30: next_batches raises; the exception leaves build_bars_from_ticks
ReaderFails ==
    /\ pc = "loop"
    /\ reads' = reads + 1
    /\ pc' = "failed"
    /\ UNCHANGED <<config, rule_secs, bars_out, buffers, symbol_filter,
                   final_bars, batch_log, calls, cutoffs, arg, ret>>

\* lines 30-32 and 60-65: next_batches returns nothing, the loop is left and
\* every rule's buffer is reduced
EndOfInput ==
    /\ pc = "loop"
    /\ reads' = reads + 1
    /\ LET new == FlushFrom(LoopState, timeframemap, 1, reads + 1)
       IN  /\ buffers' = new.buffers
           /\ bars_out' = new.bars_out
           /\ calls' = new.calls
    /\ pc' = "flushed"
    /\ UNCHANGED <<config, rule_secs, symbol_filter, final_bars, batch_log,
                   cutoffs, arg, ret>>

\* line 206: return merge_data(bars_out, rules)
Merge ==
    /\ pc = "flushed"
    /\ final_bars' = Some(MergeData(bars_out, timeframemap))
    /\ pc' = "done"
    /\ UNCHANGED <<config, rule_secs, bars_out, buffers, symbol_filter, reads,
                   batch_log, calls, cutoffs, arg, ret>>

Next ==
    \/ ConfigureRules
    \/ OpenReader
    \/ ReadBatch
    \/ ReaderFails
    \/ EndOfInput
    \/ Merge

Spec == Init /\ [][Next]_vars

\* ------------------------------------------- functions applied on their own
\* months a caller may pass range over 0 .. MaxMonth
MaxMonth == 14

\* the state of build_bars_from_ticks while a function is applied on its own
NoRun ==
    /\ timeframemap = << >>
    /\ file_name = << >>
    /\ sanity_min_price = None
    /\ sanity_max_price = None
    /\ has_symbol = FALSE
    /\ rule_secs = << >>
    /\ bars_out = << >>
    /\ buffers = << >>
    /\ symbol_filter = None
    /\ reads = 0
    /\ final_bars = None
    /\ batch_log = << >>
    /\ calls = << >>
    /\ cutoffs = << >>

run == <<config, rule_secs, bars_out, buffers, symbol_filter, reads, final_bars,
         batch_log, calls, cutoffs>>

\* raw rows of every kind: timestamp parsed or not, price cast or not,
\* symbol null, the run's instrument or another one
CleanRows ==
    [ts_event : {Unparsed, Parsed(0), Parsed(MaxTime)},
     price : {Uncast} \cup {Cast(p) : p \in Prices},
     symbol : {None, Some(SymNQH0), Some(SymNQM0)}]

CleanBounds == {None} \cup {Some(p) : p \in Prices}

CleanArgs ==
    [rows : SeqUpTo(CleanRows, MaxRows),
     has_symbol : BOOLEAN,
     symbol_filter : {None, Some(SymNQH0)},
     sanity_min_price : CleanBounds,
     sanity_max_price : CleanBounds]

InitClean ==
    /\ NoRun
    /\ pc = "call"
    /\ arg \in CleanArgs
    /\ ret = None

\* clean_tick_batch(df_pl, symbol_filter, sanity_min_price, sanity_max_price)
ApplyClean ==
    /\ pc = "call"
    /\ ret' = Some(CleanTickBatch([has_symbol |-> arg.has_symbol,
                                   rows |-> arg.rows],
                                  arg.symbol_filter, arg.sanity_min_price,
                                  arg.sanity_max_price))
    /\ pc' = "return"
    /\ UNCHANGED <<run, arg>>

SpecClean == InitClean /\ [][ApplyClean]_vars

SymbolRoots == {<<"N", "Q">>, <<"E", "S">>}

Years == {2000, 2019, 2020, 2099}

SymbolArgs == [symbol : SymbolRoots, years : Years, month : 0 .. MaxMonth]

InitSymbol ==
    /\ NoRun
    /\ pc = "call"
    /\ arg \in SymbolArgs
    /\ ret = None

\* filter_symbol_in_files(symbol, years, month)
ApplySymbol ==
    /\ pc = "call"
    /\ ret' = FilterSymbolInFiles(arg.symbol, arg.years, arg.month)
    /\ pc' = "return"
    /\ UNCHANGED <<run, arg>>

SpecSymbol == InitSymbol /\ [][ApplySymbol]_vars

\* ------------------------- the run with two labels on one window string
\* timeframe maps in which two labels carry the same window-length string
SharedMaps == {<<Str1s, Str1s>>, <<Str1s, Str2s, Str1s>>}

InitShared ==
    /\ timeframemap \in SharedMaps
    /\ file_name \in FileNames
    /\ sanity_min_price \in SanityMins
    /\ sanity_max_price \in SanityMaxs
    /\ has_symbol \in BOOLEAN
    /\ pc = "start"
    /\ rule_secs = << >>
    /\ bars_out = << >>
    /\ buffers = << >>
    /\ symbol_filter = None
    /\ reads = 0
    /\ final_bars = None
    /\ batch_log = << >>
    /\ calls = << >>
    /\ cutoffs = << >>
    /\ arg = << >>
    /\ ret = << >>

SpecShared == InitShared /\ [][Next]_vars

\* ------------------------------------------ rule_to_seconds on its own
MaxRuleLen == 3

RuleChars == {"0", "1", "6", "s", "m", " "}

\* the window-length strings of up to MaxRuleLen characters
RuleArgs == UNION {[1 .. n -> RuleChars] : n \in 0 .. MaxRuleLen}

InitRule ==
    /\ NoRun
    /\ pc = "call"
    /\ arg \in RuleArgs
    /\ ret = None

\* rule_to_seconds(rule): the returned int, or None where ValueError is raised
ApplyRule ==
    /\ pc = "call"
    /\ ret' = IF RuleInvalid(arg) THEN None ELSE Some(RuleToSeconds(arg))
    /\ pc' = "return"
    /\ UNCHANGED <<run, arg>>

SpecRule == InitRule /\ [][ApplyRule]_vars

\* ------------------------------------------------- the run of the example
Str60s == <<"6", "0", "s">>

\* the instant h:m:s.ms of the first day, in sub-second units
At(h, m, sec, ms) == (((h * 3600 + m * 60 + sec) * 1000 + ms) * SubPerSec) \div 1000

\* the four ticks of the example in file order; prices in tenths
ExampleRows ==
    <<[ts_event |-> Parsed(At(9, 0, 0, 100)), price |-> Cast(1000), symbol |-> None],
      [ts_event |-> Parsed(At(9, 0, 0, 900)), price |-> Cast(1010), symbol |-> None],
      [ts_event |-> Parsed(At(9, 0, 1, 200)), price |-> Cast(995), symbol |-> None],
      [ts_event |-> Parsed(At(9, 1, 5, 0)), price |-> Cast(1020), symbol |-> None]>>

\* rows delivered so far (no row of the example is filtered out)
Consumed == Len(Concat(batch_log))

\* the orders in which the rows of a chunk can stand in a batch
Orders(chunk) ==
    {rows \in [1 .. Len(chunk) -> Range(chunk)] :
        \A i, j \in 1 .. Len(chunk) : rows[i] = rows[j] => i = j}

InitExample ==
    /\ timeframemap = <<Str60s>>
    /\ file_name = NameNQ2003
    /\ sanity_min_price = None
    /\ sanity_max_price = None
    /\ has_symbol = FALSE
    /\ pc = "start"
    /\ rule_secs = << >>
    /\ bars_out = << >>
    /\ buffers = << >>
    /\ symbol_filter = None
    /\ reads = 0
    /\ final_bars = None
    /\ batch_log = << >>
    /\ calls = << >>
    /\ cutoffs = << >>
    /\ arg = << >>
    /\ ret = << >>

\* the reader delivers the next rows of the example as one batch
ReadExample ==
    \E k \in 1 .. Len(ExampleRows) - Consumed :
        \E rows \in Orders(SubSeq(ExampleRows, Consumed + 1, Consumed + k)) :
            ReadRows(rows)

\* end-of-input once every row was delivered
EndExample ==
    /\ Consumed = Len(ExampleRows)
    /\ EndOfInput

NextExample ==
    \/ ConfigureRules
    \/ OpenReader
    \/ ReadExample
    \/ EndExample
    \/ Merge

SpecExample == InitExample /\ [][NextExample]_vars

\* ------------------------------------------------------------ properties
\* the mapping build_bars_from_ticks returned
Returned == final_bars[1]

\* no tick of a later batch is older than a tick of an earlier batch
Ordered(log) ==
    \A i, j \in 1 .. Len(log) :
        i < j => \A a \in Range(log[i]), b \in Range(log[j]) :
                     a.datetime <= b.datetime

\* the positions of frame whose instant lies in the window [ws, ws + w)
InWindow(frame, ws, w) ==
    {i \in 1 .. Len(frame) : ws <= frame[i].datetime /\ frame[i].datetime < ws + w}

\* window length of rule r in sub-second units, from the configured seconds
WindowUnits(r) == rule_secs[r] * SubPerSec

\* C1: batch-size invariance.  When no tick of a later batch is older than a
\* tick of an earlier batch, the mapping returned after ingesting batch by
\* batch and flushing holds, for every granularity, the bars obtained by
\* sorting all sanitized ticks once and reducing them directly.
C1_BatchSizeInvariance ==
    (pc = "done" /\ Ordered(batch_log)) =>
        \A r \in RuleSet(timeframemap) :
            Returned[r] = BarsFromTicks(SortByDatetime(Concat(batch_log)), r)

\* two ordered batches, the first delivered out of order, a window holding
\* ticks of both, and a finalization before the flush
C1_Witness ==
    /\ pc = "done"
    /\ Len(batch_log) = 2
    /\ Ordered(batch_log)
    /\ Len(batch_log[1]) = 2
    /\ batch_log[1][1].datetime > batch_log[1][2].datetime
    /\ \E i \in 1 .. Len(calls) : calls[i].phase = "ingest"
    /\ \E r \in RuleSet(timeframemap) :
          \E a \in Range(batch_log[1]), b \in Range(batch_log[2]) :
              /\ a.datetime # b.datetime
              /\ WindowStart(a.datetime, WindowUnits(r))
                     = WindowStart(b.datetime, WindowUnits(r))
              /\ Len(Returned[r]) >= 2

\* the OHLC relation and the volume of one bar reduced from ticks
BarSound(bar, ticks, w) ==
    /\ bar.low <= Min(bar.open, bar.close)
    /\ Min(bar.open, bar.close) <= Max(bar.open, bar.close)
    /\ Max(bar.open, bar.close) <= bar.high
    /\ bar.volume = Cardinality(InWindow(ticks, bar.datetime, w))
    /\ bar.volume >= 1

\* C2: per-window OHLC invariant.  Every bar emitted by a call of
\* bars_from_ticks has low <= min(open, close) <= max(open, close) <= high
\* and a volume equal to the number of ticks of the call's input inside the
\* bar's window; every bar of a returned series was emitted by such a call.
C2_OhlcInvariant ==
    /\ \A i \in 1 .. Len(calls) :
          \A bar \in Range(calls[i].bars) :
              BarSound(bar, calls[i].ticks, WindowUnits(calls[i].rule))
    /\ pc = "done" =>
          \A r \in RuleSet(timeframemap) :
              \A bar \in Range(Returned[r]) :
                  \E i \in 1 .. Len(calls) :
                      calls[i].rule = r /\ bar \in Range(calls[i].bars)

\* a returned bar of three ticks whose open, high, low and close differ
C2_Witness ==
    /\ pc = "done"
    /\ \E r \in RuleSet(timeframemap) :
          \E bar \in Range(Returned[r]) :
              /\ bar.volume >= 3
              /\ bar.low < bar.open
              /\ bar.close < bar.high

\* C3: empty-granularity completeness.  The keys of the returned mapping
\* are the configured granularities, and a granularity whose bar-list is
\* empty is present with an empty series.
C3_EmptyGranularity ==
    pc = "done" =>
        /\ DOMAIN Returned = RuleSet(timeframemap)
        /\ \A r \in RuleSet(timeframemap) :
              bars_out[r] = << >> => Returned[r] = << >>

\* a completed run whose batches were all cleaned to zero rows
C3_Witness ==
    /\ pc = "done"
    /\ Len(batch_log) >= 1
    /\ \A r \in RuleSet(timeframemap) : bars_out[r] = << >>

\* the last bar with window_start k in the bar-list's append order
LastWithKey(all, k) ==
    all[CHOOSE i \in 1 .. Len(all) :
            /\ all[i].datetime = k
            /\ \A j \in 1 .. Len(all) : all[j].datetime = k => j <= i]

\* C4: merge/dedup result.  A returned series is strictly ascending in
\* window_start, has exactly the window_start keys of the accumulated
\* bar-list, and for each key holds the bar appended last.
C4_MergeDedup ==
    pc = "done" =>
        \A r \in RuleSet(timeframemap) :
            LET all == Concat(bars_out[r])
                out == Returned[r]
            IN  /\ \A i \in 1 .. Len(out) - 1 :
                      out[i].datetime < out[i + 1].datetime
                /\ {b.datetime : b \in Range(out)}
                       = {b.datetime : b \in Range(all)}
                /\ \A b \in Range(out) : b = LastWithKey(all, b.datetime)

\* a bar-list in which two finalize passes appended different bars of the
\* same window
C4_Witness ==
    /\ pc = "done"
    /\ \E r \in RuleSet(timeframemap) :
          LET all == Concat(bars_out[r])
          IN  \E i, j \in 1 .. Len(all) :
                  /\ i < j
                  /\ all[i].datetime = all[j].datetime
                  /\ all[i] # all[j]

\* the positions of the calls of bars_from_ticks of rule r in a phase
CallsOf(r, phase) ==
    {i \in 1 .. Len(calls) : calls[i].rule = r /\ calls[i].phase = phase}

RECURSIVE SumVolume(_)
SumVolume(bars) ==
    IF bars = << >> THEN 0 ELSE Head(bars).volume + SumVolume(Tail(bars))

\* C5: flush at end-of-input.  After end-of-input every non-empty buffer
\* has been reduced exactly once, whole (no watermark test), by the read
\* that found the input exhausted; its bars are the last frame of the
\* bar-list and count every buffered tick; an empty buffer adds nothing;
\* no ingest follows a flush.
C5_FlushAtEnd ==
    pc \in {"flushed", "done"} =>
        /\ \A r \in RuleSet(timeframemap) :
              IF buffers[r] # << >>
              THEN /\ Cardinality(CallsOf(r, "flush")) = 1
                   /\ \A i \in CallsOf(r, "flush") :
                          /\ calls[i].ticks = buffers[r]
                          /\ calls[i].batch = reads
                          /\ bars_out[r] # << >>
                          /\ bars_out[r][Len(bars_out[r])] = calls[i].bars
                          /\ SumVolume(calls[i].bars) = Len(buffers[r])
              ELSE CallsOf(r, "flush") = {}
        /\ \A i, j \in 1 .. Len(calls) :
              (calls[i].phase = "flush" /\ calls[j].phase = "ingest") => j < i
        /\ \A i \in 1 .. Len(calls) :
              calls[i].phase = "ingest" => calls[i].batch < reads

\* a flush of a buffer of two ticks of different windows' seconds after an
\* ingest finalized bars
C5_Witness ==
    /\ pc = "flushed"
    /\ \E r \in RuleSet(timeframemap) :
          /\ Len(buffers[r]) >= 2
          /\ buffers[r][1].datetime < buffers[r][Len(buffers[r])].datetime
          /\ CallsOf(r, "ingest") # {}

\* a window string of the whole-seconds form: digits, then "s", whitespace
\* allowed around them
WholeSecondsForm(rule) ==
    \E lead, nd, nw, trail \in 0 .. Len(rule) :
        /\ nd >= 1
        /\ lead + nd + nw + 1 + trail = Len(rule)
        /\ \A i \in 1 .. Len(rule) :
              IF i <= lead THEN rule[i] \in Whitespace
              ELSE IF i <= lead + nd THEN rule[i] \in Digits
              ELSE IF i <= lead + nd + nw THEN rule[i] \in Whitespace
              ELSE IF i = lead + nd + nw + 1 THEN rule[i] = "s"
              ELSE rule[i] \in Whitespace

\* a file name that yields instrument, year and month
YieldsRun(name) ==
    \E k \in 1 .. Len(name), sep \in {0, 1} :
        /\ Len(name) = k + 1 + 4 + sep + 2 + 4
        /\ \A i \in 1 .. k : name[i] \in Upper
        /\ name[k + 1] \in {"-", "_"}
        /\ name[k + 2] = "2" /\ name[k + 3] = "0"
        /\ name[k + 4] \in Digits /\ name[k + 5] \in Digits
        /\ (sep = 1 => name[k + 6] \in {"-", "_"})
        /\ name[k + 6 + sep] \in Digits /\ name[k + 7 + sep] \in Digits
        /\ SubSeq(name, k + 8 + sep, Len(name)) = <<".", "c", "s", "v">>

ConfigDefect ==
    \/ \E r \in RuleSet(timeframemap) : ~WholeSecondsForm(r)
    \/ ~YieldsRun(file_name)

\* C6: configuration defects abort before any batch is read.  With a window
\* string not of the whole-seconds form, or a file name that does not yield
\* instrument/year/month, the run never reads a batch and returns no
\* mapping, and it has failed once both checks are behind it.
C6_ConfigAbort ==
    ConfigDefect =>
        /\ reads = 0
        /\ final_bars = None
        /\ pc \in {"start", "open", "failed"}
        /\ (pc = "open" => \A r \in RuleSet(timeframemap) : WholeSecondsForm(r))

\* a run that failed on its file name after its rules were accepted
C6_Witness ==
    /\ pc = "failed"
    /\ ~YieldsRun(file_name)
    /\ \A r \in RuleSet(timeframemap) : WholeSecondsForm(r)
    /\ rule_secs # << >>

\* C7: atomic failure on reader error.  A failed run has returned no
\* mapping, whatever was ingested and finalized before; a mapping is
\* returned only by a completed run and then has every configured
\* granularity.
C7_AtomicFailure ==
    /\ pc = "failed" => final_bars = None
    /\ final_bars # None =>
          (pc = "done" /\ DOMAIN Returned = RuleSet(timeframemap))

\* the reader failed on the third call, after bars were finalized
C7_Witness ==
    /\ pc = "failed"
    /\ reads = 3
    /\ \E r \in RuleSet(timeframemap) : bars_out[r] # << >>

\* the positions of seq whose element satisfies Test
Positions(seq, Test(_)) == {i \in 1 .. Len(seq) : Test(seq[i])}

\* a raw row the sanitizer has to keep
Qualifies(row) ==
    /\ row.ts_event.parses
    /\ row.price.casts
    /\ arg.has_symbol =>
          (row.symbol # None /\ row.symbol = arg.symbol_filter)
    /\ arg.sanity_min_price # None => row.price.value >= arg.sanity_min_price[1]
    /\ arg.sanity_max_price # None => row.price.value <= arg.sanity_max_price[1]

\* C8: sanitizer output invariant.  The cleaned batch is sorted ascending by
\* timestamp and holds, with multiplicity, exactly the input rows with a
\* non-null timestamp and price, of the filter's symbol when the batch has a
\* symbol column, and with a price inside every bound that is set.
C8_SanitizerOutput ==
    pc = "return" =>
        LET out == ret[1]
            Same(t, p) ==
                LET IsOut(x) == x.datetime = t /\ x.mid = p
                    IsIn(row) == /\ Qualifies(row)
                                 /\ row.ts_event.instant = t
                                 /\ row.price.value = p
                IN  Cardinality(Positions(out, IsOut))
                        = Cardinality(Positions(arg.rows, IsIn))
        IN  /\ \A i \in 1 .. Len(out) - 1 : out[i].datetime <= out[i + 1].datetime
            /\ \A t \in Instants, p \in Prices : Same(t, p)
            /\ \A x \in Range(out) : x.datetime \in Instants /\ x.mid \in Prices

\* both rows kept and reordered, with a symbol column and both bounds set
C8_Witness ==
    /\ pc = "return"
    /\ arg.has_symbol
    /\ arg.sanity_min_price # None
    /\ arg.sanity_max_price # None
    /\ Len(arg.rows) = 2
    /\ Len(ret[1]) = 2
    /\ arg.rows[1].ts_event.instant > arg.rows[2].ts_event.instant

\* a raw row that passes every test other than the price bounds
ValidButForPrice(row) ==
    /\ row.ts_event.parses
    /\ row.price.casts
    /\ arg.has_symbol =>
          (row.symbol # None /\ row.symbol = arg.symbol_filter)

\* C9: sanity-bound semantics.  For each price p, the cleaned batch holds all
\* rows of price p that are otherwise valid, except that it holds none when
\* only a minimum is set and p < min_price, or only a maximum is set and
\* p > max_price; ties at the bound are kept, and without bounds no row is
\* dropped for its price.
C9_BoundSemantics ==
    (pc = "return" /\ (arg.sanity_min_price = None \/ arg.sanity_max_price = None)) =>
        \A p \in Prices :
            LET IsOut(x) == x.mid = p
                IsIn(row) == ValidButForPrice(row) /\ row.price.value = p
                kept == Cardinality(Positions(ret[1], IsOut))
                valid == Cardinality(Positions(arg.rows, IsIn))
                dropped ==
                    \/ /\ arg.sanity_min_price # None
                       /\ p < arg.sanity_min_price[1]
                    \/ /\ arg.sanity_max_price # None
                       /\ p > arg.sanity_max_price[1]
            IN  kept = IF dropped THEN 0 ELSE valid

\* only a minimum is set; a row at the bound is kept, a row below it dropped
C9_Witness ==
    /\ pc = "return"
    /\ arg.sanity_min_price # None
    /\ arg.sanity_max_price = None
    /\ Len(arg.rows) = 2
    /\ ValidButForPrice(arg.rows[1])
    /\ ValidButForPrice(arg.rows[2])
    /\ arg.rows[1].price.value = arg.sanity_min_price[1]
    /\ arg.rows[2].price.value < arg.sanity_min_price[1]
    /\ Len(ret[1]) = 1

\* the instrument code the claim's table gives
TableCode(symbol, letter, year) == Some(symbol \o <<letter, DigitChar(year % 10)>>)

\* C10: symbol-filter mapping.  Month 12 gives contract H of year Y+1, months
\* 1-3 H of Y, 4-6 M of Y, 7-9 U of Y, 10-11 Z of Y; any other month gives no
\* filter.
C10_SymbolFilter ==
    pc = "return" =>
        LET s == arg.symbol
            y == arg.years
            m == arg.month
        IN  /\ m = 12 => ret = TableCode(s, "H", y + 1)
            /\ m \in 1 .. 3 => ret = TableCode(s, "H", y)
            /\ m \in 4 .. 6 => ret = TableCode(s, "M", y)
            /\ m \in 7 .. 9 => ret = TableCode(s, "U", y)
            /\ m \in 10 .. 11 => ret = TableCode(s, "Z", y)
            /\ m \notin 1 .. 12 => ret = None

\* December of a year ending in 9: the contract year starts a new decade
C10_Witness ==
    /\ pc = "return"
    /\ arg.month = 12
    /\ arg.years = 2019
    /\ ret = Some(arg.symbol \o <<"H", "0">>)

\* C11: end-to-end example.  The ticks 09:00:00.100 -> 100.0, 09:00:00.900 ->
\* 101.0, 09:00:01.200 -> 99.5 and 09:01:05.000 -> 102.0, delivered to the 60s
\* granularity in any batching and flushed at end-of-input, give the bar of
\* 09:00:00 (open 100.0, high 101.0, low 99.5, close 99.5, volume 3) and the
\* bar of 09:01:00 (102.0 four times, volume 1), and nothing else.
C11_EndToEndExample ==
    pc = "done" =>
        /\ DOMAIN Returned = {Str60s}
        /\ Returned[Str60s] =
               <<[datetime |-> At(9, 0, 0, 0), open |-> 1000, high |-> 1010,
                  low |-> 995, close |-> 995, volume |-> 3],
                 [datetime |-> At(9, 1, 0, 0), open |-> 1020, high |-> 1020,
                  low |-> 1020, close |-> 1020, volume |-> 1]>>

\* the example in three batches: the last one moves the watermark and the
\* first three ticks are finalized before the flush
C11_Witness ==
    /\ pc = "done"
    /\ timeframemap = <<Str60s>>
    /\ Len(batch_log) = 3
    /\ Consumed = Len(ExampleRows)
    /\ \E i \in 1 .. Len(calls) :
          calls[i].phase = "ingest" /\ Len(calls[i].ticks) = 3

\* the first call of bars_from_ticks of rule r that emitted a bar of window k
FirstEmitting(r, k) ==
    CHOOSE i \in 1 .. Len(calls) :
        /\ calls[i].rule = r
        /\ \E b \in Range(calls[i].bars) : b.datetime = k
        /\ \A j \in 1 .. i - 1 :
              calls[j].rule = r => \A b \in Range(calls[j].bars) : b.datetime # k

\* batch m delivers a tick of the window k of rule r
DeliversInto(m, r, k) ==
    \E t \in Range(batch_log[m]) : WindowStart(t.datetime, Every(r)) = k

\* C12: late tick, no bar revision.  When a batch delivers a tick whose window
\* for granularity r was already finalized by an earlier batch, the bar of that
\* window in the returned series of r is the bar emitted at the earlier
\* finalization, unchanged.
C12_LateTickNoRevision ==
    pc = "done" =>
        \A r \in RuleSet(timeframemap) :
            \A b \in Range(Returned[r]) :
                LET i == FirstEmitting(r, b.datetime)
                IN  (/\ calls[i].phase = "ingest"
                     /\ \E m \in calls[i].batch + 1 .. Len(batch_log) :
                           DeliversInto(m, r, b.datetime))
                    => b \in Range(calls[i].bars)

\* no batch carries a tick older than the watermark the preceding batches
\* reached for rule r
NoLateTick(r) ==
    \A i \in 1 .. Len(cutoffs) :
        cutoffs[i].rule = r =>
            \A m \in cutoffs[i].batch + 1 .. Len(batch_log) :
                \A t \in Range(batch_log[m]) : t.datetime >= cutoffs[i].cutoff

\* the window_start keys of a bar sequence are pairwise different
DistinctKeys(all) ==
    \A i, j \in 1 .. Len(all) : all[i].datetime = all[j].datetime => i = j

\* C13: no window is finalized twice under ordered delivery.  When no tick of
\* a batch is older than the watermark the preceding batches reached for
\* granularity r, the bars appended to r's bar-list by the ingest passes and
\* the flush have pairwise different window_start, and the keep-last dedup of
\* merge_data removes none of them.
C13_NoDoubleFinalize ==
    \A r \in DOMAIN bars_out :
        NoLateTick(r) =>
            /\ DistinctKeys(Concat(bars_out[r]))
            /\ pc = "done" => Len(Returned[r]) = Len(Concat(bars_out[r]))

\* a completed run whose batches are not in timestamp order, yet without a
\* tick behind the watermark: an ingest pass and the flush each gave a bar
C13_Witness ==
    /\ pc = "done"
    /\ ~Ordered(batch_log)
    /\ \E r \in DOMAIN bars_out :
          /\ NoLateTick(r)
          /\ CallsOf(r, "ingest") # {}
          /\ CallsOf(r, "flush") # {}
          /\ Len(Returned[r]) >= 2

\* how often x stands in seq
Count(seq, x) == Cardinality({i \in 1 .. Len(seq) : seq[i] = x})

\* the largest instant of a non-empty frame
Latest(frame) ==
    CHOOSE t \in {x.datetime : x \in Range(frame)} :
        \A x \in Range(frame) : x.datetime <= t

\* floor(t / w) * w: the multiple of w with wm <= t < wm + w
FloorTo(t, w) ==
    CHOOSE wm \in 0 .. t : wm % w = 0 /\ wm <= t /\ t < wm + w

\* the step ingests a batch that was cleaned to at least one row
IngestsNonEmpty ==
    /\ pc = "loop"
    /\ Len(batch_log') = Len(batch_log) + 1
    /\ batch_log'[Len(batch_log')] # << >>

\* the calls of bars_from_ticks for rule r made by the step
NewCalls(r) == {i \in Len(calls) + 1 .. Len(calls') : calls'[i].rule = r}

\* the ticks the step passed to the reducer for rule r
Passed(r) ==
    IF NewCalls(r) = {} THEN << >>
    ELSE calls'[CHOOSE i \in NewCalls(r) : TRUE].ticks

BufferConfined(r) ==
    LET batch == batch_log'[Len(batch_log')]
        before == buffers[r] \o batch
        w == WindowUnits(r)
        watermark == FloorTo(Latest(before), w)
    IN  /\ Cardinality(NewCalls(r)) <= 1
        /\ \A x \in Range(before) \cup Range(buffers'[r]) \cup Range(Passed(r)) :
              /\ Count(buffers'[r], x) =
                     IF x.datetime >= watermark THEN Count(before, x) ELSE 0
              /\ Count(Passed(r), x) =
                     IF x.datetime < watermark THEN Count(before, x) ELSE 0
        /\ \A x \in Range(buffers'[r]) :
              watermark <= x.datetime /\ x.datetime < watermark + w

\* C14: buffer confined to one window.  Every ingest of a batch cleaned to at
\* least one row leaves, for every granularity r of window length w, in the
\* buffer of r exactly the ticks of previous buffer + batch at or after the
\* watermark floor(max timestamp / w) * w and passes exactly the ticks before
\* the watermark to the reducer; all buffered ticks lie in
\* [watermark, watermark + w).
C14_BufferConfined ==
    [][IngestsNonEmpty => \A r \in DOMAIN buffers : BufferConfined(r)]_vars

\* after a second batch: it moved the watermark of a granularity whose buffer
\* held a tick, ticks were finalized and two ticks stay buffered
C14_Witness ==
    /\ pc = "loop"
    /\ reads >= 2
    /\ batch_log[1] # << >>
    /\ batch_log[reads] # << >>
    /\ \E r \in DOMAIN buffers :
          /\ Len(buffers[r]) >= 2
          /\ \E i \in CallsOf(r, "ingest") : calls[i].batch = reads

\* C15: window length is positive.  Every window-length string that
\* rule_to_seconds accepts maps to a window length > 0 seconds; a string
\* denoting zero seconds, such as "0s", raises the configuration error.
C15_WindowPositive ==
    (pc = "return" /\ ret # None) => ret[1] > 0

\* the step reads a batch that is cleaned to zero rows
IngestsEmpty ==
    /\ pc = "loop"
    /\ Len(batch_log') = Len(batch_log) + 1
    /\ batch_log'[Len(batch_log')] = << >>

\* C16: an empty sanitized batch is a no-op.  A step whose raw batch is
\* cleaned to zero rows leaves every buffer and every bar-list unchanged,
\* reduces nothing, and the run stays in the read loop (no flush, no end).
C16_EmptyBatchNoOp ==
    [][IngestsEmpty =>
          /\ buffers' = buffers
          /\ bars_out' = bars_out
          /\ calls' = calls
          /\ cutoffs' = cutoffs
          /\ final_bars' = final_bars
          /\ pc' = "loop"]_vars

\* a batch cleaned to zero rows was read while ticks were buffered
C16_Witness ==
    /\ pc = "loop"
    /\ Len(batch_log) = 2
    /\ batch_log[1] # << >>
    /\ batch_log[2] = << >>
    /\ \E r \in DOMAIN buffers : buffers[r] # << >>

\* the loop state of a run configured with the single rule r after the
\* batches log[n ..]
RECURSIVE AloneLoop(_, _, _, _)
AloneLoop(st, r, log, n) ==
    IF n > Len(log) THEN st
    ELSE AloneLoop(IngestBatch(st, <<r>>, SortByDatetime(log[n]), rule_secs, n),
                   r, log, n + 1)

\* rule r configured alone and fed the sanitized batches read so far
Alone(r) ==
    AloneLoop([buffers |-> [x \in {r} |-> << >>],
               bars_out |-> [x \in {r} |-> << >>],
               calls |-> << >>, cutoffs |-> << >>],
              r, batch_log, 1)

\* the series build_bars_from_ticks returns for r configured alone
AloneSeries(r) ==
    MergeData(FlushFrom(Alone(r), <<r>>, 1, Len(batch_log) + 1).bars_out, <<r>>)[r]

\* C17: one ingest per granularity per batch, no sharing.  For every
\* timeframe map, also one whose labels repeat a window-length string, the
\* buffer and the bar-list of granularity r are at every point of the read
\* loop what they are when r is configured alone (each batch merged into the
\* buffer once, nothing touched by another granularity's ingest), and the
\* returned series of r is the series of r configured alone.
C17_NoSharing ==
    \A r \in DOMAIN buffers :
        /\ pc = "loop" =>
              /\ buffers[r] = Alone(r).buffers[r]
              /\ bars_out[r] = Alone(r).bars_out[r]
        /\ pc = "done" => Returned[r] = AloneSeries(r)

\* the sanitized ticks delivered so far, batch after batch
Delivered == Concat(batch_log)

\* the ticks passed to bars_from_ticks for rule r by the first n calls
RECURSIVE ReducedUpTo(_, _)
ReducedUpTo(r, n) ==
    IF n = 0 THEN << >>
    ELSE ReducedUpTo(r, n - 1)
         \o (IF calls[n].rule = r THEN calls[n].ticks ELSE << >>)

Reduced(r) == ReducedUpTo(r, Len(calls))

\* C18: tick conservation.  For every granularity, after each step of the
\* read loop the sanitized ticks delivered so far are, as a multiset, the
\* ticks already passed to the reducer plus the current buffer; after the
\* flush every delivered tick has been passed to the reducer exactly once and
\* the volumes of all bars of the accumulated bar-list (before dedup) sum to
\* the number of sanitized ticks of the run.
C18_TickConservation ==
    \A r \in DOMAIN buffers :
        /\ pc = "loop" =>
              \A x \in Range(Delivered) \cup Range(Reduced(r)) \cup Range(buffers[r]) :
                  Count(Delivered, x) = Count(Reduced(r), x) + Count(buffers[r], x)
        /\ pc \in {"flushed", "done"} =>
              /\ \A x \in Range(Delivered) \cup Range(Reduced(r)) :
                    Count(Delivered, x) = Count(Reduced(r), x)
              /\ SumVolume(Concat(bars_out[r])) = Len(Delivered)

\* a finished run of two batches with a tick behind the watermark: the
\* bar-list holds a bar that the dedup removes, ticks went to the reducer in
\* ingest passes and in the flush
C18_Witness ==
    /\ pc = "done"
    /\ Len(batch_log) = 2
    /\ Len(Delivered) >= 3
    /\ \E r \in DOMAIN buffers :
          /\ ~NoLateTick(r)
          /\ CallsOf(r, "ingest") # {}
          /\ CallsOf(r, "flush") # {}
          /\ Len(Concat(bars_out[r])) > Len(Returned[r])

\* the positions of the cutoffs computed for rule r, in the order computed
CutoffsOf(r) == {i \in 1 .. Len(cutoffs) : cutoffs[i].rule = r}

\* C19: watermark monotonicity.  For any sequence of batches, also with ticks
\* older than earlier ones, the watermark computed for a granularity never
\* decreases from one ingest to the next, and once a non-empty sanitized
\* batch was ingested the buffer of every granularity is non-empty in the
\* read loop and holds the latest tick seen.
C19_WatermarkMonotone ==
    \A r \in DOMAIN buffers :
        /\ \A i, j \in CutoffsOf(r) :
              i < j => cutoffs[i].cutoff <= cutoffs[j].cutoff
        /\ (pc = "loop" /\ Delivered # << >>) =>
              \E x \in Range(buffers[r]) : x.datetime = Latest(Delivered)

\* in the read loop, after a batch carried a tick behind the watermark of a
\* granularity that already had finalized ticks
C19_Witness ==
    /\ pc = "loop"
    /\ ~Ordered(batch_log)
    /\ \E r \in DOMAIN buffers :
          /\ ~NoLateTick(r)
          /\ Cardinality(CutoffsOf(r)) >= 2
          /\ \E i \in CutoffsOf(r) : cutoffs[i].cutoff > 0

=============================================================================
